---- MODULE Spec2Model ----
\* A model of the Connection object of src/lib/connection.js: the
\* authentication handshake, method calls and their pending-call table, the
\* demultiplexing of inbound messages, and close.  Every operation is modelled
\* as a function from the state of the world (the connection's fields, what
\* was sent on the socket, which handlers were invoked) to a new world and an
\* exception, so that code run re-entrantly by a user handler is part of the
\* step that invokes the handler.  While it runs, an operation writes down
\* what it does in oplog, the log of the last step, over which the properties
\* of operations are stated.
EXTENDS Integers, Sequences, FiniteSets, TLC

VARIABLES
  authRequired,    \* this._authRequired
  closed,          \* this._closed
  authenticating,  \* this._authenticating
  authenticated,   \* this._authenticated
  authCallback,    \* this._authCallback: 0 when undefined/null, else the handler
  sock,            \* this._sock is not null
  curMethodId,     \* this._curMethodId
  methodCalls,     \* this._methodCalls: own properties, id -> method info
  sent,            \* the payloads handed to sock.send, in order
  runs,            \* runs[n]: how often the handler of call number n was invoked
  authRuns,        \* authRuns[k]: how often the k-th stored completion handler
                   \* was invoked without an error (ok) and with one (err)
  destroyed,       \* how many times sock.destroy() was called
  alive,           \* the transport still delivers message events
  closeFired,      \* the socket's one-shot close notification was delivered
  authCount,       \* how many completion handlers authenticate has stored
  oplog            \* what the last step did: the operations it ran (nested
                   \* ones before the one that ran them) and the handler
                   \* invocations it made, in order

vars == <<authRequired, closed, authenticating, authenticated, authCallback,
          sock, curMethodId, methodCalls, sent, runs, authRuns, destroyed,
          alive, closeFired, authCount, oplog>>

\* ------------------------------------------------------------------ bounds

\* The number of method ids one behaviour may consume.
MaxCalls == 2

\* ------------------------------------------------------------- JS values

\* A JSON value as far as the code looks at it: its type, its text, and for an
\* object the type and text of its `error` property.
Val(t, s) == [t |-> t, s |-> s, et |-> "undefined", es |-> ""]
Undefined == Val("undefined", "")
JNull == Val("null", "")
JStr(s) == Val("string", s)
JNum(s) == Val("number", s)
JBool(s) == Val("boolean", s)
JObj(e) == [t |-> "object", s |-> "", et |-> e.t, es |-> e.s]

\* JavaScript truthiness, as tested by `if(x)`, `x ? a : b` and `x || y`.
Truthy(v) ==
  CASE v.t \in {"undefined", "null"} -> FALSE
    [] v.t = "boolean" -> v.s = "true"
    [] v.t = "number" -> v.s \notin {"0", "NaN"}
    [] v.t = "string" -> v.s # ""
    [] OTHER -> TRUE

\* v.error: the property of an object, undefined on a primitive.
ErrorProp(v) == IF v.t = "object" THEN Val(v.et, v.es) ELSE Undefined

\* _.isString
IsString(v) == v.t = "string"

\* NonEmptyString of check(): a string of length > 0.
NonEmptyString(v) == IsString(v) /\ v.s # ""

\* _fromProtocolError: the server's error text, or null.
fromProtocolError(error) ==
  LET errMsg == IF Truthy(error)
                THEN (IF Truthy(ErrorProp(error)) THEN ErrorProp(error) ELSE error)
                ELSE JNull
  IN IF IsString(errMsg) /\ Len(errMsg.s) > 0 THEN errMsg ELSE JNull

\* Number.prototype.toString for a non-negative integer: its decimal digits.
Digit == <<"0", "1", "2", "3", "4", "5", "6", "7", "8", "9">>
RECURSIVE toString(_)
toString(n) ==
  IF n < 10 THEN Digit[n + 1] ELSE toString(n \div 10) \o Digit[(n % 10) + 1]

\* Names every object inherits from Object.prototype: `obj[name]` is truthy
\* for them although obj has no own property of that name.
ObjectPrototypeKeys ==
  {"constructor", "toString", "valueOf", "hasOwnProperty", "isPrototypeOf",
   "propertyIsEnumerable", "toLocaleString", "__proto__"}

\* ------------------------------------------------------------ wire protocol

Protocol == [CONNECT |-> "connect", CONNECTED |-> "connected",
             FAILED |-> "failed", METHOD |-> "method", RESULT |-> "result"]

\* The error argument of a handler invoked without an error.
NoErr == "<none>"

ERR_CLOSED == "connection is already closed"
ERR_AUTH_IN_PROGRESS == "authentication already in progress"
ERR_ALREADY_AUTH == "already authenticated"
ERR_NOT_FINISHED == "authentication has not finished yet"
ERR_NOT_AUTH == "not authenticated"
ERR_CLOSED_BEFORE_AUTH == "connection closed before auth completed"
ERR_UNKNOWN == "an unknown error occurred"
ERR_NOT_FOUND == "method call not found: "
ERR_MATCH == "Match error"
ERR_FIBER == "must be called from within a fiber"
ERR_NOT_A_FUNCTION == "methodInfo.callback is not a function"
ERR_JSON == "Unexpected token in JSON"
ERR_HANDLER == "error thrown by user code"
ERR_SOCK_CLOSE == "connection closed: 1006, gone"

\* ------------------------------------------------------------------ world

\* The state as one record, so operations are functions from world to world;
\* a step starts with an empty log.
World ==
  [authRequired |-> authRequired, closed |-> closed,
   authenticating |-> authenticating, authenticated |-> authenticated,
   authCallback |-> authCallback, sock |-> sock, curMethodId |-> curMethodId,
   methodCalls |-> methodCalls, sent |-> sent, runs |-> runs,
   authRuns |-> authRuns,
   destroyed |-> destroyed, alive |-> alive, closeFired |-> closeFired,
   authCount |-> authCount, oplog |-> <<>>]

\* How an operation ends: normally, or by throwing an Error with a message.
Ret(w) == [w |-> w, thrown |-> FALSE, err |-> NoErr]
Throw(w, e) == [w |-> w, thrown |-> TRUE, err |-> e]

\* What an entry of oplog records of the connection before and after an
\* operation.
Flags(w) ==
  [closed |-> w.closed, authenticating |-> w.authenticating,
   authenticated |-> w.authenticated, authCallback |-> w.authCallback,
   sock |-> w.sock, pending |-> DOMAIN w.methodCalls]

\* The handler invocations among the entries of log after the first `from`.
Invocations(log, from) ==
  {i \in (from + 1)..Len(log) : log[i].op = "invoke"}

\* Append to oplog the operation op, with argument arg, that took world w0 to
\* the outcome r: the flags and pending ids before and after, how it ended,
\* and what it did in between (payloads sent, ids consumed, pending entries
\* added and removed, handlers invoked, socket teardowns).
Logged(op, arg, w0, r) ==
  [r EXCEPT !.w.oplog =
     Append(@, [op |-> op, arg |-> arg, pre |-> Flags(w0), post |-> Flags(r.w),
                thrown |-> r.thrown, err |-> r.err,
                sent |-> SubSeq(r.w.sent, Len(w0.sent) + 1, Len(r.w.sent)),
                ids |-> r.w.curMethodId - w0.curMethodId,
                added |-> DOMAIN r.w.methodCalls \ DOMAIN w0.methodCalls,
                removed |-> DOMAIN w0.methodCalls \ DOMAIN r.w.methodCalls,
                invoked |-> Cardinality(Invocations(r.w.oplog, Len(w0.oplog))),
                destroyed |-> r.w.destroyed - w0.destroyed])]

\* What a user handler or a resumed task does when it runs: return, throw,
\* rethrow the error it was given, or use the connection again.
Scripts == {"return", "throw", "raise", "close", "call", "authenticate"}

\* ------------------------------------------------------------- operations

\* Connection.prototype._send
send(w, msg, id) ==
  IF ~w.sock
  THEN Throw(w, ERR_CLOSED)
  ELSE Ret([w EXCEPT !.sent =
              Append(@, [msg |-> msg, id |-> id, closed |-> w.closed])])

\* _requireAuth with the bug of not looking at closed.
requireAuthIgnoringClosed(w) ==
  IF w.authenticating THEN Throw(w, ERR_NOT_FINISHED)
  ELSE IF w.authRequired /\ ~w.authenticated THEN Throw(w, ERR_NOT_AUTH)
  ELSE Ret(w)

\* _requireAuth with the bug of not looking at authRequired.
requireAuthIgnoringOption(w) ==
  IF w.closed THEN Throw(w, ERR_CLOSED)
  ELSE IF w.authenticating THEN Throw(w, ERR_NOT_FINISHED)
  ELSE Ret(w)

\* Connection.prototype._requireAuth
requireAuth(w) ==
  IF w.closed THEN Throw(w, ERR_CLOSED)
  ELSE IF w.authenticating THEN Throw(w, ERR_NOT_FINISHED)
  ELSE IF w.authRequired /\ ~w.authenticated THEN Throw(w, ERR_NOT_AUTH)
  ELSE Ret(w)

\* authenticate with the bug of not looking at a handshake in flight.
authenticateTwice(w, token) ==
  IF ~NonEmptyString(token) THEN Throw(w, ERR_MATCH)
  ELSE IF w.authenticated THEN Throw(w, ERR_ALREADY_AUTH)
  ELSE LET w1 == [w EXCEPT !.authenticating = TRUE]
           r == send(w1, Protocol.CONNECT, "")
       IN IF r.thrown THEN r
          ELSE Ret([r.w EXCEPT !.authCallback = w.authCount + 1,
                               !.authCount = w.authCount + 1,
                               !.authRuns = Append(@, [ok |-> 0, err |-> 0])])

\* Connection.prototype.authenticate, with the handler to store.
authenticateBody(w, token) ==
  IF ~NonEmptyString(token) THEN Throw(w, ERR_MATCH)
  ELSE IF w.authenticated THEN Throw(w, ERR_ALREADY_AUTH)
  ELSE IF w.authenticating THEN Throw(w, ERR_AUTH_IN_PROGRESS)
  ELSE LET w1 == [w EXCEPT !.authenticating = TRUE]
           r == send(w1, Protocol.CONNECT, "")
       IN IF r.thrown THEN r
          ELSE Ret([r.w EXCEPT !.authCallback = w.authCount + 1,
                               !.authCount = w.authCount + 1,
                               !.authRuns = Append(@, [ok |-> 0, err |-> 0])])

authenticate(w, token) ==
  Logged("authenticate", token.s, w, authenticateBody(w, token))

\* The counter with the bug of standing still once it is 1.
nextIdStuck(w) == IF w.curMethodId = 0 THEN 1 ELSE w.curMethodId

\* ++this._curMethodId
nextId(w) == w.curMethodId + 1

\* Connection.prototype._call; style says how it is called: with a trailing
\* callback ("cb"), without one from a cooperative task ("fiber"), or without
\* one outside any task ("nofiber").
callBody(w, method, style) ==
  LET a == requireAuth(w) IN
  IF a.thrown THEN a
  ELSE IF ~NonEmptyString(method) THEN Throw(w, ERR_MATCH)
  ELSE LET n == nextId(w)
           id == toString(n)
           w1 == [w EXCEPT !.curMethodId = n, !.runs = Append(@, 0)]
           r == send(w1, Protocol.METHOD, id)
       IN IF r.thrown THEN r
          ELSE IF style = "nofiber" THEN Throw(r.w, ERR_FIBER)
          ELSE Ret([r.w EXCEPT !.methodCalls =
                      [k \in DOMAIN @ \cup {id} |->
                         IF k = id THEN [n |-> n, style |-> style] ELSE @[k]]])

call(w, method, style) == Logged("call", style, w, callBody(w, method, style))

RECURSIVE close(_, _, _)
RECURSIVE runScript(_, _, _, _, _)

\* An invocation of the stored authentication completion handler with err.
invokeAuthCallback(w, err, env) ==
  LET k == w.authCallback
      how == IF err = NoErr THEN "ok" ELSE "err"
  IN runScript([w EXCEPT !.authRuns[k][how] = @ + 1,
                         !.oplog = Append(@, [op |-> "invoke", kind |-> "auth",
                                              n |-> k, err |-> err,
                                              result |-> Undefined,
                                              closed |-> w.closed])],
               env.as, err, "cb", env)

\* An invocation of the handler of method info `info`, found under the id of
\* the inbound message m, with (err, result).
invokeMethodCallback(w, info, m, err, result, env) ==
  runScript([w EXCEPT !.runs[info.n] = @ + 1,
                      !.oplog = Append(@, [op |-> "invoke", kind |-> "method",
                                           n |-> info.n, style |-> info.style,
                                           err |-> err, result |-> result,
                                           m |-> m, closed |-> w.closed])],
            env.ms, err, info.style, env)

\* The user code behind a handler: the callback itself, or for a parked call
\* the task that fiber.run() resumes, whose uncaught exception leaves run().
runScript(w, script, err, style, env) ==
  CASE script = "return" -> Ret(w)
    [] script = "throw" -> Throw(w, ERR_HANDLER)
    [] script = "raise" -> IF err = NoErr THEN Ret(w) ELSE Throw(w, err)
    [] script = "close" -> close(w, NoErr, env)
    [] script = "call" -> call(w, JStr("m"), style)
    [] script = "authenticate" -> authenticate(w, JStr("tok"))

\* Connection.prototype.close on a connection that is not closed: the flags,
\* the pending completion handler, the socket.
closeOpen(w, err, env) ==
  LET w1 == [w EXCEPT !.authenticating = FALSE, !.authenticated = FALSE,
                      !.closed = TRUE]
      r == IF w1.authCallback # 0
           THEN invokeAuthCallback(
                  w1, IF err = NoErr THEN ERR_CLOSED_BEFORE_AUTH ELSE err, env)
           ELSE Ret(w1)
  IN IF r.thrown THEN r
     ELSE LET w2 == IF w1.authCallback # 0
                    THEN [r.w EXCEPT !.authCallback = 0] ELSE r.w
          IN IF w2.sock
             THEN Ret([w2 EXCEPT !.destroyed = @ + 1, !.alive = FALSE,
                                 !.sock = FALSE])
             ELSE Ret(w2)

\* close with the bug of tearing the socket down again when already closed.
closeTearingDownAgain(w, err, env) ==
  IF w.closed THEN Ret([w EXCEPT !.destroyed = @ + 1])
  ELSE closeOpen(w, err, env)

\* Connection.prototype.close
closeBody(w, err, env) ==
  IF w.closed THEN Ret(w) ELSE closeOpen(w, err, env)

close(w, err, env) == Logged("close", err, w, closeBody(w, err, env))

\* this._methodCalls[id]: the own property if there is one, else what the
\* object inherits under that name (a truthy value with no callback), else
\* undefined.
lookup(w, id) ==
  IF id \in DOMAIN w.methodCalls THEN "own"
  ELSE IF id \in ObjectPrototypeKeys THEN "inherited"
  ELSE "undefined"

\* The lookup with the bug of taking the info of the latest call whenever
\* that call is pending.
methodInfoOfLatest(w, id) ==
  IF toString(w.curMethodId) \in DOMAIN w.methodCalls
  THEN w.methodCalls[toString(w.curMethodId)]
  ELSE w.methodCalls[id]

\* The method info stored under id.
methodInfoOf(w, id) == w.methodCalls[id]

\* delete with the bug of removing nothing.
deleteNothing(calls, id) == calls

\* delete this._methodCalls[id]
delete(calls, id) == [k \in DOMAIN calls \ {id} |-> calls[k]]

\* The try block of Connection.prototype._onMessage for the inbound payload m:
\* json says whether JSON.parse accepts it, the other fields are the parsed
\* message's.
onMessageTry(w, m, env) ==
  IF ~m.json THEN Throw(w, ERR_JSON)
  ELSE IF ~NonEmptyString(m.msg) THEN Throw(w, ERR_MATCH)
  ELSE IF m.msg.s = Protocol.CONNECTED THEN
    IF ~w.authenticating THEN Throw(w, "unexpected connected message")
    ELSE LET w1 == [w EXCEPT !.authenticating = FALSE, !.authenticated = TRUE]
         IN IF w1.authCallback # 0
            THEN LET r == invokeAuthCallback(w1, NoErr, env)
                 IN IF r.thrown THEN r
                    ELSE Ret([r.w EXCEPT !.authCallback = 0])
            ELSE Ret(w1)
  ELSE IF m.msg.s = Protocol.FAILED THEN
    LET errMsg == IF w.authenticating THEN "authentication failed"
                  ELSE "unexpected auth failed message"
        protocolErr == fromProtocolError(m.error)
    IN Throw(w, errMsg \o (IF Truthy(protocolErr)
                           THEN ": " \o protocolErr.s ELSE ""))
  ELSE IF m.msg.s = Protocol.RESULT THEN
    IF ~NonEmptyString(m.id) THEN Throw(w, ERR_MATCH)
    ELSE LET id == m.id.s
             methodInfo == lookup(w, id)
         IN IF methodInfo = "undefined" THEN Throw(w, ERR_NOT_FOUND \o id)
            ELSE IF methodInfo = "inherited" THEN Throw(w, ERR_NOT_A_FUNCTION)
            ELSE LET info == methodInfoOf(w, id)
                     w1 == [w EXCEPT !.methodCalls = delete(@, id)]
                 IN IF Truthy(m.error)
                    THEN LET pe == fromProtocolError(m.error)
                         IN invokeMethodCallback(
                              w1, info, m,
                              IF Truthy(pe) THEN pe.s ELSE ERR_UNKNOWN,
                              Undefined, env)
                    ELSE invokeMethodCallback(w1, info, m, NoErr, m.result, env)
  ELSE Throw(w, "unexpected message: " \o m.msg.s)

\* _onMessage with the bug of swallowing what the try block throws.
onMessageNotClosing(w, m, env) ==
  LET r == onMessageTry(w, m, env)
  IN IF r.thrown THEN [r EXCEPT !.thrown = FALSE] ELSE r

\* Connection.prototype._onMessage: the try block, and the catch clause that
\* closes the connection with whatever was thrown.
onMessageBody(w, m, env) ==
  LET r == onMessageTry(w, m, env)
  IN IF r.thrown
     THEN LET c == close(r.w, r.err, env)
          IN IF c.thrown THEN c ELSE [c EXCEPT !.err = r.err]
     ELSE r

onMessage(w, m, env) == Logged("message", m, w, onMessageBody(w, m, env))

\* _onClose with the bug of doing nothing.
onCloseIgnored(w, env) == Ret(w)

\* Connection.prototype._onClose
onCloseBody(w, env) ==
  IF ~w.closed THEN close(w, ERR_SOCK_CLOSE, env) ELSE Ret(w)

onClose(w, env) == Logged("sockclose", "", w, onCloseBody(w, env))

\* ------------------------------------------------------------------ inputs

Tokens == {JStr("tok"), JStr("")}
CloseReasons == {NoErr, "bye"}

\* How the user calls a method: with a usable name in each calling style, and
\* with an empty name.
CallArgs ==
  {<<JStr("m"), style>> : style \in {"cb", "fiber", "nofiber"}}
    \cup {<<JStr(""), "cb">>}

\* The ids the connection can assign within the bound, and one more.
DecimalIds == {toString(n) : n \in 1..(MaxCalls + 1)}

\* Other ids an inbound result may carry: an inherited property name, the
\* empty string, none.
OtherIds == {JStr("constructor"), JStr(""), Undefined}

\* The values of the error field of an inbound message; Undefined: no field.
ErrorValues ==
  {Undefined, JStr(""), JStr("boom"), JBool("true"), JObj(JStr("boom")),
   JObj(JStr(""))}

ResultValues == {JNum("41"), JNum("42")}

Msg(msg, id, error, result) ==
  [json |-> TRUE, msg |-> msg, id |-> id, error |-> error, result |-> result]

\* The inbound payloads when the pending-call table has the keys `pending`:
\* one JSON.parse rejects, a message without msg, an unexpected msg,
\* connected, failed with and without a reason, and results: for each pending id
\* with each result value and with each error value, and one for each other
\* id (the code reads no other field of a result it finds no call for).
Inbound(pending) ==
  {[json |-> FALSE, msg |-> JStr("{"), id |-> Undefined, error |-> Undefined,
    result |-> Undefined]}
    \cup {Msg(k, Undefined, Undefined, Undefined) :
            k \in {Undefined, JStr(Protocol.METHOD), JStr(Protocol.CONNECTED)}}
    \cup {Msg(JStr(Protocol.FAILED), Undefined, e, Undefined) :
            e \in ErrorValues \ {JBool("true"), JObj(JStr(""))}}
    \cup {Msg(JStr(Protocol.RESULT), JStr(i), Undefined, v) :
            i \in pending, v \in ResultValues}
    \cup {Msg(JStr(Protocol.RESULT), JStr(i), e, JNum("42")) :
            i \in pending, e \in ErrorValues \ {Undefined}}
    \cup {Msg(JStr(Protocol.RESULT), JStr(i), Undefined, JNum("42")) :
            i \in DecimalIds \ pending}
    \cup {Msg(JStr(Protocol.RESULT), i, Undefined, JNum("42")) : i \in OtherIds}

\* The behaviours worth distinguishing for a handler that cond says can run.
ScriptsIf(cond) == IF cond THEN Scripts ELSE {"return"}

\* The step with outcome r invokes the authentication completion handler.
RunsAuth(r) ==
  \E i \in DOMAIN r.w.oplog :
    r.w.oplog[i].op = "invoke" /\ r.w.oplog[i].kind = "auth"

\* ------------------------------------------------------------------- steps

\* new Connection(sock, options)
Init ==
  /\ authRequired \in BOOLEAN
  /\ closed = FALSE
  /\ authenticating = FALSE
  /\ authenticated = FALSE
  /\ authCallback = 0
  /\ sock = TRUE
  /\ curMethodId = 0
  /\ methodCalls = <<>>
  /\ sent = <<>>
  /\ runs = <<>>
  /\ authRuns = <<>>
  /\ destroyed = 0
  /\ alive = TRUE
  /\ closeFired = FALSE
  /\ authCount = 0
  /\ oplog = <<>>

\* The world a step starts from.
Start == World

\* The outcome r of a step becomes the next state, within the bound on ids.
Install(outcome) ==
  \E r \in {outcome} :
  /\ r.w.curMethodId <= MaxCalls
  /\ authRequired' = r.w.authRequired
  /\ closed' = r.w.closed
  /\ authenticating' = r.w.authenticating
  /\ authenticated' = r.w.authenticated
  /\ authCallback' = r.w.authCallback
  /\ sock' = r.w.sock
  /\ curMethodId' = r.w.curMethodId
  /\ methodCalls' = r.w.methodCalls
  /\ sent' = r.w.sent
  /\ runs' = r.w.runs
  /\ authRuns' = r.w.authRuns
  /\ destroyed' = r.w.destroyed
  /\ alive' = r.w.alive
  /\ closeFired' = r.w.closeFired
  /\ authCount' = r.w.authCount
  /\ oplog' = r.w.oplog

\* The socket's close notification finds the transport gone.
Gone == [Start EXCEPT !.alive = FALSE, !.closeFired = TRUE]

\* The behaviours of the handlers a step may invoke: ms of a method-call
\* handler, as of the authentication completion handler.
Env(ms, as) == [ms |-> ms, as |-> as]

\* A result for a pending call: the only inbound message that runs a
\* method-call handler.
Matches(m) ==
  /\ m.json
  /\ m.msg = JStr(Protocol.RESULT)
  /\ m.id.t = "string"
  /\ m.id.s \in DOMAIN methodCalls

\* The user calls authenticate(token, callback).
Authenticate ==
  /\ \E token \in Tokens : Install(authenticate(Start, token))

\* The user calls a method.
Call ==
  /\ \E a \in CallArgs : Install(call(Start, a[1], a[2]))

\* The user calls close(err).
Close ==
  \E err \in CloseReasons, as \in ScriptsIf(~closed /\ authCallback # 0) :
    Install(close(Start, err, Env("return", as)))

\* The socket delivers an inbound payload.
Message ==
  /\ alive
  /\ \E m \in Inbound(DOMAIN methodCalls) :
       \E ms \in ScriptsIf(Matches(m)) :
         \E as \in ScriptsIf(RunsAuth(onMessage(Start, m, Env(ms, "return")))) :
           Install(onMessage(Start, m, Env(ms, as)))

\* The socket delivers its one-shot close notification.
SockClose ==
  /\ ~closeFired
  /\ \E as \in ScriptsIf(~closed /\ authCallback # 0) :
       Install(onClose(Gone, Env("return", as)))

Next == Authenticate \/ Call \/ Close \/ Message \/ SockClose

Spec == Init /\ [][Next]_vars

\* ------------------------------------------------------------- properties

\* The entry of the operation the last step consisted of.
Top == oplog[Len(oplog)]

\* The last step was the operation op.
Did(op) == oplog # <<>> /\ Top.op = op

\* The payloads sent so far of one kind, in order.
MethodsSent == SelectSeq(sent, LAMBDA x : x.msg = Protocol.METHOD)
ConnectsSent == SelectSeq(sent, LAMBDA x : x.msg = Protocol.CONNECT)

IsInvoke(e, kind) == e.op = "invoke" /\ e.kind = kind

\* The invocations of method-call handlers the last step made.
MethodInvocations == {i \in DOMAIN oplog : IsInvoke(oplog[i], "method")}

\* m is a result whose id is a non-empty string.
ResultWithId(m) ==
  m.json /\ m.msg = JStr(Protocol.RESULT) /\ NonEmptyString(m.id)

\* The last step closed the connection (or found it closed) for the reason
\* text.
ClosedWith(text) ==
  /\ closed
  /\ \E i \in DOMAIN oplog : oplog[i].op = "close" /\ oplog[i].arg = text

\* C1: result demultiplexing by id.  Whenever an inbound result makes the
\* connection invoke a method-call handler, the handler is the one recorded
\* by the call that was numbered n and sent the id toString(n), the result's
\* id is that id, and the arguments are that message's: its result when the
\* handler gets no error, an error made from its error field otherwise.
C1_Demux ==
  \A i \in DOMAIN oplog :
    LET e == oplog[i] IN
    IsInvoke(e, "method") =>
      /\ Did("message") /\ e.m = Top.arg
      /\ ResultWithId(e.m)
      /\ e.m.id.s = toString(e.n)
      /\ e.n \in 1..Len(MethodsSent)
      /\ MethodsSent[e.n].id = e.m.id.s
      /\ e.err = NoErr => e.result = e.m.result
      /\ e.err # NoErr =>
           /\ e.m.error # Undefined
           /\ e.err \in {e.m.error.s, e.m.error.es, ERR_UNKNOWN}

\* Two calls were outstanding, the first one parked in a task, and the
\* result of the second call has just arrived and been delivered to the
\* second call's handler, before that of the first.
C1_Witness ==
  /\ curMethodId = 2
  /\ runs = <<0, 1>>
  /\ DOMAIN methodCalls = {"1"}
  /\ methodCalls["1"].style = "fiber"
  /\ Did("message")
  /\ \E i \in MethodInvocations :
       oplog[i].n = 2 /\ oplog[i].err = NoErr /\ oplog[i].result = JNum("41")
  /\ ~closed

\* C2: at-most-once delivery.  No handler of a method call has been invoked
\* twice; a result for a pending id invokes that call's handler, exactly
\* once, and removes the entry; a result whose id was already resolved
\* invokes no method-call handler and closes the connection with "method
\* call not found".
C2_AtMostOnce ==
  /\ \A n \in DOMAIN runs : runs[n] <= 1
  /\ Did("message") /\ ResultWithId(Top.arg) =>
       LET id == Top.arg.id.s IN
       /\ id \in Top.pre.pending =>
            /\ Cardinality(MethodInvocations) = 1
            /\ \A i \in MethodInvocations :
                 id = toString(oplog[i].n) /\ runs[oplog[i].n] = 1
            /\ id \in Top.removed
       /\ \A n \in DOMAIN runs :
            (id = toString(n) /\ id \notin Top.pre.pending /\ runs[n] >= 1)
              => /\ MethodInvocations = {}
                 /\ ClosedWith(ERR_NOT_FOUND \o id)

\* A second result for the id of a call that was resolved has just closed
\* the connection, which was open, without running the handler again.
C2_Witness ==
  /\ Did("message") /\ ResultWithId(Top.arg) /\ Top.arg.id.s = "1"
  /\ ~Top.pre.closed
  /\ runs = <<1>>
  /\ MethodInvocations = {}
  /\ ClosedWith(ERR_NOT_FOUND \o "1")

\* C3: a result whose id matches no pending call closes the connection with
\* the reason "method call not found", and every call on a closed connection
\* fails with "connection is already closed" and sends nothing.
C3_UnknownIdCloses ==
  /\ (Did("message") /\ ResultWithId(Top.arg)
        /\ Top.arg.id.s \notin Top.pre.pending)
       => ClosedWith(ERR_NOT_FOUND \o Top.arg.id.s)
  /\ \A i \in DOMAIN oplog :
       (oplog[i].op = "call" /\ oplog[i].pre.closed) =>
         /\ oplog[i].thrown
         /\ oplog[i].err = ERR_CLOSED
         /\ oplog[i].sent = <<>>

\* C4: with authRequired, a call on a connection that is not authenticated
\* fails, sends nothing, consumes no id and adds no pending entry; the error
\* is "not authenticated" unless the connection is closed or a handshake is
\* in flight, which are reported first.
C4_NotAuthenticated ==
  \A i \in DOMAIN oplog :
    LET e == oplog[i] IN
    (e.op = "call" /\ authRequired /\ ~e.pre.authenticated) =>
      /\ e.thrown
      /\ e.sent = <<>>
      /\ e.ids = 0
      /\ e.added = {}
      /\ (~e.pre.closed /\ ~e.pre.authenticating) => e.err = ERR_NOT_AUTH

\* A call has just failed with "not authenticated" on a fresh connection
\* that requires authentication, and nothing was ever sent.
C4_Witness ==
  /\ Did("call") /\ Top.thrown /\ Top.err = ERR_NOT_AUTH
  /\ authRequired
  /\ ~closed /\ ~authenticating /\ ~authenticated
  /\ sent = <<>>
  /\ curMethodId = 0
  /\ methodCalls = <<>>

\* C5: an authenticate made while a handshake is pending or after the
\* connection is authenticated fails, sends nothing and changes no flag; and
\* every connect message but the first was sent on a connection whose
\* handshake had ended with the connection closed.
C5_OneHandshake ==
  /\ \A i \in DOMAIN oplog :
       LET e == oplog[i] IN
       (e.op = "authenticate" /\ (e.pre.authenticating \/ e.pre.authenticated))
         => e.thrown /\ e.sent = <<>> /\ e.post = e.pre
  /\ \A j \in 2..Len(ConnectsSent) : ConnectsSent[j].closed

\* A second authenticate has just failed while the first handshake is still
\* in flight, with one connect message sent.
C5_Witness ==
  /\ Did("authenticate") /\ Top.thrown /\ Top.err = ERR_AUTH_IN_PROGRESS
  /\ Top.arg = "tok"
  /\ authenticating /\ ~closed
  /\ Len(ConnectsSent) = 1

\* C6: the k-th method message sent carries the decimal string of k, starting
\* with "1"; every id consumed was sent; distinct numbers have distinct
\* strings; and every key of the pending-call table is the string of a number
\* up to the counter.
C6_Ids ==
  /\ Len(MethodsSent) = curMethodId
  /\ \A k \in DOMAIN MethodsSent : MethodsSent[k].id = toString(k)
  /\ curMethodId >= 1 => MethodsSent[1].id = "1"
  /\ \A a, b \in 1..curMethodId : a # b => toString(a) # toString(b)
  /\ DOMAIN methodCalls \subseteq {toString(n) : n \in 1..curMethodId}

\* As many calls as the bound allows were sent, the first of them resolved
\* and the last one pending.
C6_Witness ==
  /\ curMethodId = MaxCalls
  /\ Len(MethodsSent) = MaxCalls
  /\ runs[1] = 1
  /\ toString(MaxCalls) \in DOMAIN methodCalls

\* C7: close on a closed connection changes nothing, invokes no handler and
\* does not tear the socket down, whether the user or a handler calls it; and
\* close twice leaves the state a single close leaves.
C7_CloseIdempotent ==
  /\ \A i \in DOMAIN oplog :
       LET e == oplog[i] IN
       (e.op = "close" /\ e.pre.closed) =>
         /\ ~e.thrown
         /\ e.post = e.pre
         /\ e.sent = <<>> /\ e.ids = 0 /\ e.added = {} /\ e.removed = {}
         /\ e.invoked = 0
         /\ e.destroyed = 0
  /\ \A err \in CloseReasons, as \in Scripts :
       LET once == close(Start, err, Env("return", as)).w
       IN \A err2 \in CloseReasons, as2 \in Scripts :
            LET twice == close([once EXCEPT !.oplog = <<>>], err2,
                               Env("return", as2))
            IN /\ ~twice.thrown
               /\ [twice.w EXCEPT !.oplog = <<>>] = [once EXCEPT !.oplog = <<>>]

\* close() has just been called after the socket's close notification had
\* closed the connection and torn the socket down.
C7_Witness ==
  /\ Did("close") /\ Top.pre.closed /\ ~Top.thrown
  /\ closeFired
  /\ closed
  /\ destroyed = 1

\* C8: each stored authentication completion handler has been invoked at
\* most once: with no error, or with an error, never both.
C8_OneShot ==
  \A k \in DOMAIN authRuns : authRuns[k].ok + authRuns[k].err <= 1

\* The error text the handler is to get for the error field v of a result:
\* the server's text when v is a non-empty string or an object whose error
\* is a non-empty string, the generic text otherwise.
ErrorTextFor(v) ==
  IF v.t = "string" /\ v.s # "" THEN v.s
  ELSE IF v.t = "object" /\ v.et = "string" /\ v.es # "" THEN v.es
  ELSE ERR_UNKNOWN

\* C9: the handler of a result that carries an error field is invoked with
\* an error with that text, the handler of a result without one with
\* (null, result).
C9_ErrorOrResult ==
  \A i \in MethodInvocations :
    LET e == oplog[i] IN
    IF e.m.error # Undefined
    THEN e.err # NoErr /\ e.err = ErrorTextFor(e.m.error)
    ELSE e.err = NoErr /\ e.result = e.m.result

\* What the log of a step shows of C10: no operation found the connection
\* closed and left it open, and the socket's close notification closed a
\* connection that was not closed and, when a handshake was in flight,
\* invoked the completion handler stored for it with the error.
ClosedStays ==
  /\ \A i \in DOMAIN oplog :
       (oplog[i].op # "invoke" /\ oplog[i].pre.closed) => oplog[i].post.closed
  /\ Did("sockclose") /\ ~Top.pre.closed =>
       /\ closed
       /\ Top.pre.authenticating =>
            \E i \in DOMAIN oplog :
              /\ IsInvoke(oplog[i], "auth")
              /\ oplog[i].n = Top.pre.authCallback
              /\ oplog[i].err = ERR_SOCK_CLOSE

\* C10: closed is terminal: no step makes closed false again, by any of its
\* operations, and the step of the socket's close notification is as
\* ClosedStays says.
C10_ClosedTerminal == [][(closed => closed') /\ ClosedStays']_vars

\* The socket's close notification has just closed a connection whose
\* handshake was in flight, and the completion handler got the error.
C10_Witness ==
  /\ Did("sockclose") /\ ~Top.pre.closed /\ Top.pre.authenticating
  /\ closed
  /\ closeFired
  /\ authRuns = <<[ok |-> 0, err |-> 1]>>
  /\ Len(ConnectsSent) = 1

\* C11: the authentication flags exclude each other and closed excludes
\* both: authenticating and authenticated are never both true, and on a
\* closed connection both are false.
C11_FlagInvariant ==
  /\ ~(authenticating /\ authenticated)
  /\ closed => (~authenticating /\ ~authenticated)

\* C12: an authenticate that fails has no effect: whenever authenticate
\* is called while a handshake is in flight, on an authenticated or on a
\* closed connection, or its connect message cannot be sent, it throws and
\* leaves authenticating, authenticated, closed and the stored completion
\* handler as they were.
C12_FailedAuthenticateNoEffect ==
  \A i \in DOMAIN oplog :
    LET e == oplog[i] IN
    e.op = "authenticate" =>
      /\ (e.pre.authenticating \/ e.pre.authenticated \/ e.pre.closed)
           => e.thrown
      /\ e.thrown =>
           /\ e.post.authenticating = e.pre.authenticating
           /\ e.post.authenticated = e.pre.authenticated
           /\ e.post.closed = e.pre.closed
           /\ e.post.authCallback = e.pre.authCallback

\* m is a failed message.
IsFailed(m) == m.json /\ m.msg = JStr(Protocol.FAILED)

\* The invocations of authentication completion handlers the last step made.
AuthInvocations == {i \in DOMAIN oplog : IsInvoke(oplog[i], "auth")}

\* The server's reason text in the error field v of a failed message, with
\* the separator, or nothing when there is no usable text.
ReasonSuffix(v) ==
  IF v.t = "string" /\ v.s # "" THEN ": " \o v.s
  ELSE IF v.t = "object" /\ v.et = "string" /\ v.es # "" THEN ": " \o v.es
  ELSE ""

IsConnected(m) == m.json /\ m.msg = JStr(Protocol.CONNECTED)

\* C14: authenticated becomes true only by a connected message received
\* while authenticating on a connection that is not closed, after which a
\* call is permitted; a connected message received while not authenticating
\* or on a closed connection never sets authenticated, and received on a
\* connection that is neither authenticating nor closed it closes the
\* connection as a protocol violation.
C14_AuthenticatedOnlyByConnected ==
  /\ \A i \in DOMAIN oplog :
       LET e == oplog[i] IN
       (e.op # "invoke" /\ ~e.pre.authenticated /\ e.post.authenticated) =>
         /\ e.op = "message" /\ IsConnected(e.arg)
         /\ e.pre.authenticating /\ ~e.pre.closed
  /\ (authenticated /\ oplog # <<>> /\ ~Top.pre.authenticated) =>
       ~requireAuth(Start).thrown
  /\ (Did("message") /\ IsConnected(Top.arg) /\ ~Top.pre.closed
        /\ ~Top.pre.authenticating) =>
       /\ ~authenticated
       /\ ClosedWith("unexpected connected message")

\* C15: pending calls are abandoned on close.  A step that is a close or the
\* socket's close notification invokes no handler of a method call; the only
\* invocation of one is the first thing a message step does, before any
\* close of that step; and no handler of a method call (callback or parked
\* task) is invoked on a connection that is closed.
C15_AbandonedOnClose ==
  /\ (Did("close") \/ Did("sockclose")) => MethodInvocations = {}
  /\ \A i \in MethodInvocations : Did("message") /\ i = 1
  /\ \A i \in MethodInvocations : ~oplog[i].closed

\* m is a result that carries an error field for a call that is pending.
RemoteError(m) ==
  ResultWithId(m) /\ m.id.s \in DOMAIN methodCalls /\ m.error # Undefined

\* What the code behind a call of the given style does with the error of a
\* result when it does nothing of its own: a callback returns; a parked call
\* raises the error in its task, which handles it or lets it propagate.
ErrorDeliveries(style) ==
  IF style = "fiber" THEN {"return", "raise"} ELSE {"return"}

\* C16: an error reported by the server on a result does not close the
\* connection: on a connection that is not closed, processing a result with
\* an error field for a pending call, callback-style or parked, returns
\* normally, leaves closed false and the authentication flags as they were,
\* removes that call's entry only, and every other pending call can still be
\* resolved by its own result.
C16_RemoteErrorKeepsOpen ==
  ~closed =>
    \A m \in Inbound(DOMAIN methodCalls) :
      RemoteError(m) =>
        \A ms \in ErrorDeliveries(methodCalls[m.id.s].style) :
          LET r == onMessage(Start, m, Env(ms, "return"))
          IN /\ ~r.thrown
             /\ ~r.w.closed
             /\ r.w.authenticating = authenticating
             /\ r.w.authenticated = authenticated
             /\ DOMAIN r.w.methodCalls = DOMAIN methodCalls \ {m.id.s}
             /\ \A j \in DOMAIN methodCalls \ {m.id.s} :
                  LET n == methodCalls[j].n
                      r2 == onMessage(r.w, Msg(JStr(Protocol.RESULT), JStr(j),
                                               Undefined, JNum("42")),
                                      Env("return", "return"))
                  IN r2.w.runs[n] = r.w.runs[n] + 1 /\ ~r2.w.closed

\* C17: no exception escapes the processing of an inbound message: whatever
\* the payload, the state of the connection and the behaviour of the
\* handlers it runs, the message handler returns normally, and when
\* processing raised, the connection is closed afterwards and the close was
\* given what was raised as its reason.
C17_NothingEscapes ==
  \A i \in DOMAIN oplog :
    LET e == oplog[i] IN
    e.op = "message" =>
      /\ ~e.thrown
      /\ e.err # NoErr =>
           /\ e.post.closed
           /\ \E j \in 1..(i - 1) :
                oplog[j].op = "close" /\ oplog[j].arg = e.err

\* C18: socket ownership.  Between operations the connection holds its
\* socket exactly when it is not closed; the socket has been torn down
\* exactly once when the connection is closed and never before; and no
\* connect or method message was sent with closed true.
C18_SocketOwnership ==
  /\ sock <=> ~closed
  /\ destroyed = (IF closed THEN 1 ELSE 0)
  /\ \A i \in DOMAIN sent : ~sent[i].closed

\* The ids of the method messages sent to which no result has been
\* delivered.
Unanswered == {toString(n) : n \in {k \in DOMAIN runs : runs[k] = 0}}

\* C19: sent requests and pending entries agree.  Between operations on a
\* connection that is not closed, the ids of the method messages sent and
\* not yet answered are the keys of the pending-call table; and a call that
\* throws has sent no method message and consumed no id.
C19_SentAgreesWithPending ==
  /\ ~closed => Unanswered = DOMAIN methodCalls
  /\ \A i \in DOMAIN oplog :
       (oplog[i].op = "call" /\ oplog[i].thrown) =>
         (oplog[i].sent = <<>> /\ oplog[i].ids = 0)

\* The connection with flags f accepts calls: it is authenticated, or needs
\* no authentication, and is neither closed nor in a handshake.
Accepting(f) ==
  /\ ~f.closed
  /\ ~f.authenticating
  /\ f.authenticated \/ ~authRequired

\* The error of a call on a connection with flags f that does not accept
\* calls: closed first, then the handshake in flight, then not authenticated.
GateError(f) ==
  IF f.closed THEN ERR_CLOSED
  ELSE IF f.authenticating THEN ERR_NOT_FINISHED
  ELSE ERR_NOT_AUTH

\* C20: call gating by state.  A call made where the connection accepts
\* calls fails only for its arguments (no method name, no callback outside a
\* task) and otherwise sends one method message and records the pending
\* entry for its id; with a method name and a callback or a task it is
\* always accepted there.  A call made anywhere else throws the error of
\* that state, sends nothing, consumes no id and changes neither the flags
\* nor the pending-call table.
C20_CallGating ==
  /\ \A i \in DOMAIN oplog :
       LET e == oplog[i] IN
       e.op = "call" =>
         /\ (Accepting(e.pre) /\ e.thrown) => e.err \in {ERR_MATCH, ERR_FIBER}
         /\ (Accepting(e.pre) /\ ~e.thrown) =>
              /\ Len(e.sent) = 1
              /\ e.sent[1].msg = Protocol.METHOD
              /\ e.ids = 1
              /\ e.added = {e.sent[1].id}
         /\ ~Accepting(e.pre) =>
              /\ e.thrown
              /\ e.err = GateError(e.pre)
              /\ e.sent = <<>>
              /\ e.ids = 0
              /\ e.post = e.pre
  /\ \A style \in {"cb", "fiber"} :
       LET r == call(Start, JStr("m"), style)
       IN Accepting(Flags(Start)) <=> ~r.thrown

\* A call has just been accepted on a connection made without the need to
\* authenticate, which never authenticated.
C20_Witness ==
  /\ Did("call") /\ ~Top.thrown
  /\ ~authRequired /\ ~authenticated /\ ~authenticating /\ ~closed
  /\ sent = <<[msg |-> Protocol.METHOD, id |-> "1", closed |-> FALSE]>>
  /\ DOMAIN methodCalls = {"1"}

====
